---------------------------- MODULE Spec2Model ----------------------------
(* minrpn: best-first search for an expression over the seeds with the     *)
(* fewest terms (src/minrpn.cpp).  The model follows main() position by    *)
(* position.  The configuration (the seeds handed to provide, goal and     *)
(* max_relevant) is compiled into the program; here it is drawn in Init    *)
(* from bounded sets and never changes afterwards.                         *)
(* arith_t is long; with |v| < max_relevant for every stored non-seed      *)
(* value no product or sum of two stored values leaves the 64-bit range,   *)
(* so arith_t values are modelled as unbounded integers.                   *)
(* The iteration order of std::unordered_map is unspecified: every         *)
(* iteration over list_closed or backing is a nondeterministic choice of   *)
(* the order.  assert() is active (the build line in the source header has *)
(* no -DNDEBUG): a failing assertion ends the run at pc = "assert_<line>". *)
EXTENDS Integers, Sequences, FiniteSets, TLC

\* ---------------------------------------------------------------- bounds
\* goal is drawn from -GoalSlack..MaxGoal
MaxGoal == 3
\* two provide calls: seeds from 0..MaxSeed, max_relevant from 1..MaxRel
MaxSeed == 2
MaxRel == 3
\* both provide calls with the same seed: the seed from 0..MaxLoneSeed,
\* max_relevant from 1..MaxLoneRel
MaxLoneSeed == 7
MaxLoneRel == 5

\* main calls provide twice (lines 236-237)
NumProvide == 2

\* the literal 10 of "goal_seen_n_terms = goal + 10"
GoalSlack == 10

VARIABLES
    seeds,              \* the arguments of the provide calls in main
    goal,               \* static const arith_t goal
    max_relevant,       \* static const arith_t max_relevant
    goal_seen_n_terms,  \* static size_t goal_seen_n_terms
    backing,            \* list_open.backing: value -> expr_node
    min_nterms_cached,  \* list_open.min_nterms_cached
    min_nterms,         \* list_open.min_nterms
    list_closed,        \* list_closed: value -> expr_node
    pc,                 \* position in main
    to_provide,         \* seeds not yet handed to provide
    val,                \* main's local val
    node,               \* main's local node
    todo,               \* keys of list_closed the for loop has not visited
    cands,              \* discover calls left in the running generate_against
    one_way             \* n_terms of the "One way (n terms)" lines printed

vars == <<seeds, goal, max_relevant, goal_seen_n_terms, backing,
          min_nterms_cached, min_nterms, list_closed, pc, to_provide,
          val, node, todo, cands, one_way>>

\* ------------------------------------------------------------ arithmetic
Abs(x) == IF x < 0 THEN -x ELSE x

\* C++ integer division truncates towards zero
CDiv(a, b) ==
    IF (a >= 0) = (b > 0) THEN Abs(a) \div Abs(b) ELSE -(Abs(a) \div Abs(b))

\* C++ remainder: a == (a / b) * b + a % b
CRem(a, b) == a - CDiv(a, b) * b

\* ------------------------------------------------------------------ maps
EmptyMap == [x \in {} |-> 0]
Put(f, k, v) == [x \in DOMAIN f \cup {k} |-> IF x = k THEN v ELSE f[x]]
Remove(f, k) == [x \in DOMAIN f \ {k} |-> f[x]]

\* ----------------------------------------------------------------- nodes
OP_PLUS == "+"
OP_MINUS == "-"
OP_DIV == "/"
OP_MULT == "*"
OP_NONE == "="

expr_node(l, r, n, o) == [val_left |-> l, val_right |-> r, n_terms |-> n, op |-> o]

\* main's node before the first pop_into: declared, not yet assigned
NoNode == [val_left |-> 0, val_right |-> 0, n_terms |-> 0, op |-> "uninit"]

\* ------------------------------------------------------------- list_open
\* mutant: push replaces the stored node on a tie as well (>= for >)
pushReplaceOnTie(b, mn, v, n) ==
    IF ~(n.n_terms >= 1) THEN [fail |-> 101, backing |-> b]
    ELSE IF ~(n.n_terms > mn) THEN [fail |-> 104, backing |-> b]
    ELSE IF v \notin DOMAIN b THEN [fail |-> 0, backing |-> Put(b, v, n)]
    ELSE IF b[v].n_terms >= n.n_terms THEN [fail |-> 0, backing |-> Put(b, v, n)]
    ELSE [fail |-> 0, backing |-> b]

\* list_open_t::push; the result carries the line of a failing assertion
push(b, mn, v, n) ==
    IF ~(n.n_terms >= 1) THEN [fail |-> 101, backing |-> b]
    ELSE IF ~(n.n_terms > mn) THEN [fail |-> 104, backing |-> b]
    ELSE IF v \notin DOMAIN b THEN [fail |-> 0, backing |-> Put(b, v, n)]
    ELSE IF b[v].n_terms > n.n_terms THEN [fail |-> 0, backing |-> Put(b, v, n)]
    ELSE [fail |-> 0, backing |-> b]

\* mutant: step_recache without the test n_terms >= goal_seen_n_terms
EvictedBelowBound(b, mn, gs, g) ==
    {v \in DOMAIN b : b[v].n_terms # mn /\ v # g}

\* mutant: step_recache without the test entry.first != goal
EvictedWithGoal(b, mn, gs, g) ==
    {v \in DOMAIN b : b[v].n_terms # mn /\ b[v].n_terms >= gs}

\* the entries step_recache erases at level mn
Evicted(b, mn, gs, g) ==
    {v \in DOMAIN b : b[v].n_terms # mn /\ b[v].n_terms >= gs /\ v # g}

\* mutant: step_recache caches every entry of at least the level
LevelAtLeast(b, mn) == {v \in DOMAIN b : b[v].n_terms >= mn}

\* the entries step_recache pushes onto min_nterms_cached at level mn
Level(b, mn) == {v \in DOMAIN b : b[v].n_terms = mn}

\* lookup_best_known: the node, or "out_of_range" thrown by backing.at
Registered(v) == v \in DOMAIN list_closed \/ v \in DOMAIN backing
lookup_best_known(v) ==
    IF v \in DOMAIN list_closed THEN list_closed[v] ELSE backing[v]

\* ------------------------------------------------------ generate_against
\* the discover calls of one generate_against, in order: every candidate
\* carries n terms; the second pass (b_val != a_val) records rl, rr as its
\* val_left, val_right
GenCands(a_val, b_val, n, rl, rr) ==
    LET c(v, l, r, o) == [val |-> v, node |-> expr_node(l, r, n, o)]
    IN  (IF b_val # 0 /\ CRem(a_val, b_val) = 0
            THEN <<c(CDiv(a_val, b_val), a_val, b_val, OP_DIV)>> ELSE <<>>)
        \o <<c(a_val - b_val, a_val, b_val, OP_MINUS),
             c(a_val * b_val, a_val, b_val, OP_MULT),
             c(a_val + b_val, a_val, b_val, OP_PLUS)>>
        \o (IF b_val # a_val
            THEN (IF a_val # 0 /\ CRem(b_val, a_val) = 0
                     THEN <<c(CDiv(b_val, a_val), rl, rr, OP_DIV)>>
                     ELSE <<>>)
                 \o <<c(b_val - a_val, rl, rr, OP_MINUS)>>
            ELSE <<>>)

\* mutant: the second pass keeps val_left = a_val, val_right = b_val
CandidatesNoSwap(a_val, a, b_val, b) ==
    GenCands(a_val, b_val, a.n_terms + b.n_terms, a_val, b_val)

\* mutant: a candidate costs one term more than a, whatever b costs
CandidatesPlusOne(a_val, a, b_val, b) ==
    GenCands(a_val, b_val, a.n_terms + 1, b_val, a_val)

\* mutant: a candidate carries the term count of b alone
CandidatesCostOfPeer(a_val, a, b_val, b) ==
    GenCands(a_val, b_val, b.n_terms, b_val, a_val)

\* the reversed-operand commutative candidates b+a and b*a
Reversed(a_val, a, b_val, b) ==
    IF b_val # a_val
    THEN <<[val |-> b_val + a_val,
            node |-> expr_node(b_val, a_val, a.n_terms + b.n_terms, OP_PLUS)],
           [val |-> b_val * a_val,
            node |-> expr_node(b_val, a_val, a.n_terms + b.n_terms, OP_MULT)]>>
    ELSE <<>>

\* mutant: generate_against generates b+a and b*a as well
CandidatesWasteful(a_val, a, b_val, b) ==
    GenCands(a_val, b_val, a.n_terms + b.n_terms, b_val, a_val)
        \o Reversed(a_val, a, b_val, b)

\* generate_against(a_val, a, b_val, b)
Candidates(a_val, a, b_val, b) ==
    GenCands(a_val, b_val, a.n_terms + b.n_terms, b_val, a_val)

\* ------------------------------------------------------------------ Init
\* the sets of values the NumProvide provide calls can name
SeedSets(top) ==
    {S \in SUBSET (0..top) : Cardinality(S) >= 1 /\ Cardinality(S) <= NumProvide}

Init ==
    /\ \/ seeds \in SeedSets(MaxSeed) /\ max_relevant \in 1..MaxRel
       \/ seeds \in {{s} : s \in 0..MaxLoneSeed} /\ max_relevant \in 1..MaxLoneRel
    /\ goal \in (-GoalSlack)..MaxGoal
    /\ goal_seen_n_terms = goal + GoalSlack
    /\ backing = EmptyMap
    /\ min_nterms_cached = {}
    /\ min_nterms = 0
    /\ list_closed = EmptyMap
    /\ pc = "provide"
    /\ to_provide = seeds
    /\ val = 0
    /\ node = NoNode
    /\ todo = {}
    /\ cands = <<>>
    /\ one_way = <<>>

Abort(line) == "assert_" \o ToString(line)

\* --------------------------------------------------------------- actions
\* provide(d): main lines 236-237
Provide ==
    /\ pc = "provide"
    /\ to_provide # {}
    /\ \E d \in to_provide :
        LET r == push(backing, min_nterms, d, expr_node(d, d, 1, OP_NONE))
        IN  /\ backing' = r.backing
            /\ to_provide' = to_provide \ {d}
            /\ pc' = IF r.fail # 0 THEN Abort(r.fail) ELSE pc
    /\ UNCHANGED <<seeds, goal, max_relevant, goal_seen_n_terms,
                   min_nterms_cached, min_nterms, list_closed, val, node,
                   todo, cands, one_way>>

\* assert(list_open.size() > 0): main line 240
StartSearch ==
    /\ pc = "provide"
    /\ to_provide = {}
    /\ pc' = IF DOMAIN backing = {} THEN Abort(240) ELSE "loop"
    /\ UNCHANGED <<seeds, goal, max_relevant, goal_seen_n_terms, backing,
                   min_nterms_cached, min_nterms, list_closed, to_provide,
                   val, node, todo, cands, one_way>>

\* top of the do-while body, and the entry of pop_into: lines 246-250, 129-132
LoopTop ==
    /\ pc = "loop"
    /\ pc' = IF DOMAIN backing = {} THEN "exhausted"
             ELSE IF min_nterms_cached = {} THEN "recache"
             ELSE "pop"
    /\ UNCHANGED <<seeds, goal, max_relevant, goal_seen_n_terms, backing,
                   min_nterms_cached, min_nterms, list_closed, to_provide,
                   val, node, todo, cands, one_way>>

\* one step_recache call of recache's do-while: lines 63-88, 93-95
StepRecache ==
    /\ pc = "recache"
    /\ min_nterms' = min_nterms + 1
    /\ IF ~(min_nterms' <= goal_seen_n_terms)
       THEN /\ pc' = Abort(65)
            /\ UNCHANGED <<backing, min_nterms_cached>>
       ELSE IF \E v \in DOMAIN backing : ~(backing[v].n_terms >= min_nterms')
       THEN /\ pc' = Abort(76)
            /\ UNCHANGED <<backing, min_nterms_cached>>
       ELSE /\ min_nterms_cached' = Level(backing, min_nterms')
            /\ backing' = [v \in DOMAIN backing
                              \ Evicted(backing, min_nterms', goal_seen_n_terms, goal)
                           |-> backing[v]]
            /\ pc' = IF min_nterms_cached' = {} THEN "recache" ELSE "pop"
    /\ UNCHANGED <<seeds, goal, max_relevant, goal_seen_n_terms, list_closed,
                   to_provide, val, node, todo, cands, one_way>>

\* the rest of pop_into: lines 133-139
PopInto ==
    /\ pc = "pop"
    /\ \E v \in min_nterms_cached :
        /\ val' = v
        /\ min_nterms_cached' = min_nterms_cached \ {v}
        /\ IF v \notin DOMAIN backing
           THEN /\ pc' = Abort(136)
                /\ UNCHANGED <<node, backing>>
           ELSE /\ node' = backing[v]
                /\ backing' = Remove(backing, v)
                /\ pc' = "close"
    /\ UNCHANGED <<seeds, goal, max_relevant, goal_seen_n_terms, min_nterms,
                   list_closed, to_provide, todo, cands, one_way>>

\* mutant: the node is stored under its left operand, list_closed[node.val_left] = node
CloseKeyedByOperand ==
    /\ pc = "close"
    /\ list_closed' = Put(list_closed, node.val_left, node)
    /\ IF val = goal
       THEN /\ pc' = Abort(266)
            /\ UNCHANGED todo
       ELSE /\ pc' = "expand"
            /\ todo' = DOMAIN list_closed'
    /\ UNCHANGED <<seeds, goal, max_relevant, goal_seen_n_terms, backing,
                   min_nterms_cached, min_nterms, to_provide, val, node,
                   cands, one_way>>

\* list_closed.emplace(val, node); assert(val != goal): lines 264-266
Close ==
    /\ pc = "close"
    /\ list_closed' = IF val \in DOMAIN list_closed THEN list_closed
                      ELSE Put(list_closed, val, node)
    /\ IF val = goal
       THEN /\ pc' = Abort(266)
            /\ UNCHANGED todo
       ELSE /\ pc' = "expand"
            /\ todo' = DOMAIN list_closed'
    /\ UNCHANGED <<seeds, goal, max_relevant, goal_seen_n_terms, backing,
                   min_nterms_cached, min_nterms, to_provide, val, node,
                   cands, one_way>>

\* the for loop picks the next peer and enters generate_against: lines 268-269, 210-215
GenerateAgainst ==
    /\ pc = "expand"
    /\ cands = <<>>
    /\ todo # {}
    /\ \E b_val \in todo :
        /\ todo' = todo \ {b_val}
        /\ IF ~(node.n_terms + list_closed[b_val].n_terms >= 2)
           THEN /\ pc' = Abort(212)
                /\ UNCHANGED cands
           ELSE /\ cands' = Candidates(val, node, b_val, list_closed[b_val])
                /\ UNCHANGED pc
    /\ UNCHANGED <<seeds, goal, max_relevant, goal_seen_n_terms, backing,
                   min_nterms_cached, min_nterms, list_closed, to_provide,
                   val, node, one_way>>

\* mutant: discover without the list_closed.count(val) test
AdmittedIgnoringClosed(v, n) ==
    /\ ~(Abs(v) >= max_relevant)
    /\ ~(n.n_terms >= goal_seen_n_terms)

\* whether discover(v, n) gets past its three early returns: lines 188-199
Admitted(v, n) ==
    /\ v \notin DOMAIN list_closed
    /\ ~(Abs(v) >= max_relevant)
    /\ ~(n.n_terms >= goal_seen_n_terms)

\* discover(c.val, c.node) in the current state: lines 185-207.  The
\* result carries the line of a failing assertion of push, the new backing,
\* goal_seen_n_terms and "One way" output
discover(c) ==
    IF ~Admitted(c.val, c.node)
    THEN [fail |-> 0, backing |-> backing, goal_seen |-> goal_seen_n_terms,
          one_way |-> one_way]
    ELSE LET r == push(backing, min_nterms, c.val, c.node) IN
         IF r.fail # 0 \/ c.val # goal
         THEN [fail |-> r.fail, backing |-> r.backing,
               goal_seen |-> goal_seen_n_terms, one_way |-> one_way]
         ELSE [fail |-> 0, backing |-> r.backing,
               goal_seen |-> c.node.n_terms,
               one_way |-> Append(one_way, c.node.n_terms)]

\* the next discover call of the running generate_against
Discover ==
    /\ pc = "expand"
    /\ cands # <<>>
    /\ cands' = Tail(cands)
    /\ LET r == discover(Head(cands)) IN
        /\ backing' = r.backing
        /\ goal_seen_n_terms' = r.goal_seen
        /\ one_way' = r.one_way
        /\ pc' = IF r.fail # 0 THEN Abort(r.fail) ELSE pc
    /\ UNCHANGED <<seeds, goal, max_relevant, min_nterms_cached, min_nterms,
                   list_closed, to_provide, val, node, todo>>

\* the loop condition: line 272
LoopCond ==
    /\ pc = "expand"
    /\ cands = <<>>
    /\ todo = {}
    /\ pc' = IF goal_seen_n_terms > node.n_terms + 1 THEN "loop" ELSE "print"
    /\ UNCHANGED <<seeds, goal, max_relevant, goal_seen_n_terms, backing,
                   min_nterms_cached, min_nterms, list_closed, to_provide,
                   val, node, todo, cands, one_way>>

\* "Done after ..."; print_expr(goal); return 0: lines 275-282.
\* print_expr(goal) throws std::out_of_range from backing.at when goal has
\* no node in either list.
PrintResult ==
    /\ pc = "print"
    /\ pc' = IF Registered(goal) THEN "done" ELSE "out_of_range"
    /\ UNCHANGED <<seeds, goal, max_relevant, goal_seen_n_terms, backing,
                   min_nterms_cached, min_nterms, list_closed, to_provide,
                   val, node, todo, cands, one_way>>

Next ==
    \/ Provide
    \/ StartSearch
    \/ LoopTop
    \/ StepRecache
    \/ PopInto
    \/ Close
    \/ GenerateAgainst
    \/ Discover
    \/ LoopCond
    \/ PrintResult

Spec == Init /\ [][Next]_vars

\* ------------------------------------------------- reference: expressions
\* The values a op b that an expression node over operands a and b can have:
\* +, -, * and exact integer / (divisor non-zero, remainder zero).
Results(a, b) ==
    {a + b, a - b, a * b}
        \cup (IF b # 0 /\ CRem(a, b) = 0 THEN {CDiv(a, b)} ELSE {})

SetMin(S) == CHOOSE x \in S : \A y \in S : x <= y

\* Least term counts of the expression trees over the seeds S whose every
\* non-seed node (the root included) has a value v with |v| < M: the least
\* fixpoint of "a seed costs 1, a op b costs cost(a) + cost(b)".
RECURSIVE LeastTerms(_, _)
LeastTerms(c, M) ==
    LET D == DOMAIN c
        U == (1 - M)..(M - 1)
        via(v) == {c[p[1]] + c[p[2]] : p \in {q \in D \X D : v \in Results(q[1], q[2])}}
        nd == D \cup {v \in U : via(v) # {}}
        n == [v \in nd |-> IF v \notin U THEN c[v]
                           ELSE SetMin(via(v) \cup (IF v \in D THEN {c[v]} ELSE {}))]
    IN  IF n = c THEN c ELSE LeastTerms(n, M)

AllSeedSets == SeedSets(MaxSeed) \cup {{s} : s \in 0..MaxLoneSeed}
AllRel == 1..(IF MaxRel > MaxLoneRel THEN MaxRel ELSE MaxLoneRel)

\* value -> least term count, for every configuration of Init
MinTerms == [S \in AllSeedSets, M \in AllRel |-> LeastTerms([s \in S |-> 1], M)]

\* the value has an expression over the seeds within the window
Expressible(v) == v \in DOMAIN MinTerms[seeds, max_relevant]

\* the two exits of main and the abnormal ends
Terminal == ~ENABLED Next

\* ---------------------------------------------------------------- claims
\* the value of the expression "l op r"; exact division only
Apply(o, l, r) ==
    CASE o = OP_PLUS -> l + r
      [] o = OP_MINUS -> l - r
      [] o = OP_MULT -> l * r
      [] o = OP_DIV -> CDiv(l, r)

\* the value of the expression print_expr(v) writes
RECURSIVE Eval(_)
Eval(v) ==
    LET n == lookup_best_known(v)
    IN  IF n.op = OP_NONE THEN v
        ELSE Apply(n.op, Eval(n.val_left), Eval(n.val_right))

\* a node stored under key v is a seed leaf, or built from two closed
\* nodes of strictly fewer terms whose values give v under its operator
SoundNode(v, n) ==
    IF n.op = OP_NONE
    THEN v \in seeds /\ n.n_terms = 1
    ELSE /\ n.val_left \in DOMAIN list_closed
         /\ n.val_right \in DOMAIN list_closed
         /\ list_closed[n.val_left].n_terms < n.n_terms
         /\ list_closed[n.val_right].n_terms < n.n_terms
         /\ n.op = OP_DIV => n.val_right # 0 /\ CRem(n.val_left, n.val_right) = 0
         /\ Apply(n.op, n.val_left, n.val_right) = v

\* C1: whenever main takes the "Done" exit, the reported goal_seen_n_terms
\* is the least number of seed occurrences of any expression for goal
\* within the window.
C1_Minimality ==
    pc = "print" =>
        /\ Expressible(goal)
        /\ goal_seen_n_terms = MinTerms[seeds, max_relevant][goal]

\* C2: every node registered in list_open or list_closed is sound (operands
\* closed with strictly fewer terms, operator applied to them gives the
\* key), and whenever goal is registered the expression print_expr(goal)
\* writes evaluates to goal.
C2_Soundness ==
    /\ \A v \in DOMAIN backing : SoundNode(v, backing[v])
    /\ \A v \in DOMAIN list_closed : SoundNode(v, list_closed[v])
    /\ Registered(goal) => Eval(goal) = goal

\* C2 witness: main has printed a composite expression for goal whose
\* operands are not both seeds
C2_Witness ==
    /\ pc = "done"
    /\ lookup_best_known(goal).op # OP_NONE
    /\ lookup_best_known(goal).n_terms >= 3

\* C3: a pop_into never returns a node of fewer terms than the node the
\* previous pop_into returned.
C3_MonotonicExtraction ==
    [][(pc = "pop" /\ pc' = "close" /\ node # NoNode)
          => node'.n_terms >= node.n_terms]_vars

\* C3 witness: a node of three or more terms has just been extracted, after
\* the extraction of its operands
C3_Witness ==
    /\ pc = "close"
    /\ node.n_terms >= 3
    /\ Cardinality(DOMAIN list_closed) >= 2

\* C4: no value is a key of both backing and list_closed, in every state.
C4_Disjoint == DOMAIN backing \cap DOMAIN list_closed = {}

\* C4 witness: in the middle of an expansion, discover is about to be
\* called with a value that is already closed while the frontier is not empty
C4_Witness ==
    /\ pc = "expand"
    /\ cands # <<>>
    /\ Head(cands).val \in DOMAIN list_closed
    /\ DOMAIN backing # {}

\* the cost rule for a stored node: at least one term, and for a composite
\* node the sum of the terms of its two operands' closed nodes
CostRule(n) ==
    /\ n.n_terms >= 1
    /\ n.op # OP_NONE =>
        /\ n.val_left \in DOMAIN list_closed
        /\ n.val_right \in DOMAIN list_closed
        /\ n.n_terms = list_closed[n.val_left].n_terms
                         + list_closed[n.val_right].n_terms

\* C5: every closed node has n_terms >= 1 and a composite one has the sum
\* of its operands' closed n_terms; the operands are closed from the moment
\* the node is created, so the rule holds of the nodes in backing as well.
C5_CostBookkeeping ==
    /\ \A v \in DOMAIN list_closed : CostRule(list_closed[v])
    /\ \A v \in DOMAIN backing : CostRule(backing[v])

\* C5 witness: a closed composite node one of whose operands is composite
C5_Witness ==
    \E v \in DOMAIN list_closed :
        /\ list_closed[v].op # OP_NONE
        /\ list_closed[v].n_terms >= 3

\* C6: with the target among the seeds the run ends in "Done" reporting one
\* term, after discovering the target at cost 1, and prints the seed.
C6_SeedEqualsTarget ==
    (goal \in seeds /\ Terminal) =>
        /\ pc = "done"
        /\ one_way = <<1>>
        /\ goal_seen_n_terms = 1
        /\ lookup_best_known(goal).op = OP_NONE

\* C7: main takes the "Goal can't be reached" exit only if no expression
\* over the seeds within the window has the value goal.
C7_ExhaustionTruthful == pc = "exhausted" => ~Expressible(goal)

\* C8: when the "Done" exit is taken the target has been discovered, has a
\* node in list_open or list_closed, and that node's n_terms is the
\* reported goal_seen_n_terms.
C8_SuccessImpliesDiscovery ==
    pc = "print" =>
        /\ one_way # <<>>
        /\ Registered(goal)
        /\ lookup_best_known(goal).n_terms = goal_seen_n_terms

\* C9: a run that has stopped has stopped at "Done" or at "Goal can't be
\* reached": no run stops at a failed assertion or an uncaught exception.
C9_Termination == Terminal => pc \in {"done", "exhausted"}

\* C10: a step never changes or removes an entry of list_closed, and a new
\* entry appears only when main closes the pair pop_into just returned,
\* under a key that was not closed before.
C10_ClosedFinal ==
    [][/\ \A v \in DOMAIN list_closed :
            v \in DOMAIN list_closed' /\ list_closed'[v] = list_closed[v]
       /\ list_closed' # list_closed =>
            /\ pc = "close"
            /\ val \notin DOMAIN list_closed
            /\ list_closed' = Put(list_closed, val, node)]_vars

\* C10 witness: the search goes on expanding after a composite node and
\* two more nodes were closed
C10_Witness ==
    /\ pc = "expand"
    /\ Cardinality(DOMAIN list_closed) >= 3
    /\ \E v \in DOMAIN list_closed : list_closed[v].op # OP_NONE

\* what the claim says push(v, n) does to backing: insert when v has no
\* entry, replace when the stored n_terms is strictly greater, otherwise
\* nothing; every other entry is kept, and the entry of v ends with the
\* smaller of the stored and the pushed n_terms
InsertOrImprove(v, n) ==
    /\ DOMAIN backing' = DOMAIN backing \cup {v}
    /\ \A w \in DOMAIN backing \ {v} : backing'[w] = backing[w]
    /\ backing'[v] = IF v \notin DOMAIN backing THEN n
                     ELSE IF backing[v].n_terms > n.n_terms THEN n
                     ELSE backing[v]
    /\ v \in DOMAIN backing =>
        backing'[v].n_terms = IF backing[v].n_terms < n.n_terms
                              THEN backing[v].n_terms ELSE n.n_terms

\* C11: every push that provide or discover makes inserts the node when
\* the value has no entry, replaces the entry when the stored n_terms is
\* strictly greater, and otherwise leaves backing unchanged; the entry then
\* carries the least n_terms pushed for the value.
C11_InsertOrImprove ==
    [][/\ (pc = "provide" /\ to_provide' # to_provide /\ pc' = "provide") =>
            \E d \in to_provide \ to_provide' :
                InsertOrImprove(d, expr_node(d, d, 1, OP_NONE))
       /\ (pc = "expand" /\ cands # <<>> /\ pc' = "expand"
              /\ Admitted(Head(cands).val, Head(cands).node)) =>
            InsertOrImprove(Head(cands).val, Head(cands).node)]_vars

\* C11 witness: discover is about to push a node for a value whose entry in
\* backing has strictly more terms (the replace case), while another
\* entry of backing has no more terms than the pushed node
C11_Witness ==
    /\ pc = "expand"
    /\ cands # <<>>
    /\ Admitted(Head(cands).val, Head(cands).node)
    /\ Head(cands).val \in DOMAIN backing
    /\ backing[Head(cands).val].n_terms > Head(cands).node.n_terms
    /\ \E w \in DOMAIN backing : backing[w].n_terms <= Head(cands).node.n_terms

\* the second half of pop_into: the value taken from min_nterms_cached has
\* an entry in backing, that entry is returned and removed, and no entry
\* of backing, nor any entry evicted earlier in the call (each of at least
\* goal_seen_n_terms terms), has fewer terms than it
PopsMinimum ==
    /\ pc' = "close"
    /\ val' \in DOMAIN backing
    /\ node' = backing[val']
    /\ backing' = [w \in DOMAIN backing \ {val'} |-> backing[w]]
    /\ \A w \in DOMAIN backing : node'.n_terms <= backing[w].n_terms
    /\ node'.n_terms <= goal_seen_n_terms

\* C12 as stated: a call of pop_into changes backing only by removing the
\* one entry it returns, which has the least n_terms of backing.
C12_ExactlyOneRemoved ==
    [][/\ pc = "recache" => backing' = backing
       /\ pc = "pop" => PopsMinimum]_vars

\* C12 amended: a call of pop_into removes the entry it returns, which has
\* no more terms than any entry present when the call was made, and before
\* that only the entries its step_recache calls evict, each with
\* n_terms >= goal_seen_n_terms, above the level and a value other than goal.
C12_ExtractMinimum ==
    [][/\ pc = "recache" =>
            /\ \A w \in DOMAIN backing' :
                    w \in DOMAIN backing /\ backing'[w] = backing[w]
            /\ \A w \in DOMAIN backing \ DOMAIN backing' :
                    /\ backing[w].n_terms >= goal_seen_n_terms
                    /\ backing[w].n_terms > min_nterms'
                    /\ w # goal
            /\ min_nterms_cached' # {} => min_nterms' <= goal_seen_n_terms
       /\ pc = "pop" => PopsMinimum]_vars

\* C12 witness: pop_into is in a step_recache call that evicts an entry and
\* finds the level from which the node will be returned
C12_Witness ==
    /\ pc = "recache"
    /\ min_nterms + 1 <= goal_seen_n_terms
    /\ Evicted(backing, min_nterms + 1, goal_seen_n_terms, goal) # {}
    /\ Level(backing, min_nterms + 1) # {}

\* discover(c) would change neither the values registered in backing, nor
\* the n_terms of any of them, nor goal_seen_n_terms, nor the output
Lossless(c) ==
    LET r == discover(c)
    IN  /\ r.fail = 0
        /\ DOMAIN r.backing = DOMAIN backing
        /\ \A v \in DOMAIN backing : r.backing[v].n_terms = backing[v].n_terms
        /\ r.goal_seen = goal_seen_n_terms
        /\ r.one_way = one_way

\* C13: generate_against never hands discover a reversed commutative
\* candidate; and at the end of a generate_against call the discover calls
\* for b+a and b*a that a wasteful variant would add there (for the peer
\* just visited, and for any peer b visited before in this expansion) change
\* nothing: the wasteful variant's extra steps leave the state as it is, so
\* it goes through the same states and ends with the same outcome and count.
C13_DuplicateAvoidanceLossless ==
    pc = "expand" =>
        /\ \A i \in 1..Len(cands) :
                cands[i].node.op \in {OP_PLUS, OP_MULT} =>
                    cands[i].node.val_left = val
        /\ cands = <<>> =>
                \A b \in DOMAIN list_closed \ todo :
                    LET w == Reversed(val, node, b, list_closed[b])
                    IN  \A i \in 1..Len(w) : Lossless(w[i])

\* C13 witness: a generate_against call against a different peer b has
\* ended and left val + b in backing as the node val b +
C13_Witness ==
    /\ pc = "expand"
    /\ cands = <<>>
    /\ \E b \in DOMAIN list_closed \ (todo \cup {val}) :
        /\ val + b \in DOMAIN backing
        /\ backing[val + b] =
              expr_node(val, b, node.n_terms + list_closed[b].n_terms, OP_PLUS)

\* C14: when no seed equals goal, pop_into never returns goal: the
\* assertion val != goal holds and goal's node never enters list_closed.
C14_TargetNeverExtracted ==
    goal \notin seeds =>
        /\ pc # Abort(266)
        /\ ~(pc = "close" /\ val = goal)
        /\ goal \notin DOMAIN list_closed

\* discover(c) returns at its third test: c is not closed, lies within the
\* window and has n_terms >= goal_seen_n_terms
RejectedForCost(c) ==
    /\ c.val \notin DOMAIN list_closed
    /\ ~(Abs(c.val) >= max_relevant)
    /\ c.node.n_terms >= goal_seen_n_terms

\* C15: a candidate is rejected on account of its n_terms only if the target
\* has been discovered before, at a cost of at most that n_terms.
C15_CostPruningAfterDiscovery ==
    (pc = "expand" /\ cands # <<>> /\ RejectedForCost(Head(cands))) =>
        /\ one_way # <<>>
        /\ one_way[Len(one_way)] <= Head(cands).node.n_terms

\* C16: a discover call for a candidate whose value is goal and whose
\* n_terms is below goal_seen_n_terms sets goal_seen_n_terms to that
\* n_terms, whether or not the candidate is kept.
C16_DiscoveryIndependentOfAdmission ==
    [][(pc = "expand" /\ cands # <<>> /\ Head(cands).val = goal
           /\ Head(cands).node.n_terms < goal_seen_n_terms)
          => goal_seen_n_terms' = Head(cands).node.n_terms]_vars

\* C17: once the target has been discovered, pop_into returns a node only
\* if its n_terms is strictly less than goal_seen_n_terms - 1.
C17_StopPolicy ==
    [][(pc = "pop" /\ pc' = "close" /\ one_way # <<>>)
          => node'.n_terms < goal_seen_n_terms - 1]_vars

\* C18: the precondition of push is always met.  provide pushes nodes of
\* one term while the level min_nterms is still 0; while a node is closed
\* and expanded, min_nterms is the n_terms of that node, the most recently
\* extracted one, and every candidate handed to discover (hence every
\* node discover hands to push) has n_terms >= 1 and n_terms > min_nterms;
\* neither assertion at the top of push (lines 101, 104) ever fails.
C18_PushPrecondition ==
    /\ pc \notin {Abort(101), Abort(104)}
    /\ pc = "provide" => min_nterms = 0 /\ node = NoNode
    /\ pc \in {"close", "expand"} => min_nterms = node.n_terms
    /\ pc = "expand" =>
          \A i \in 1..Len(cands) :
              /\ cands[i].node.n_terms >= 1
              /\ cands[i].node.n_terms > min_nterms

\* discover is about to push a node of min_nterms + 1 terms, the least
\* the precondition allows, after an extraction above the first level
C18_Witness ==
    /\ pc = "expand"
    /\ cands # <<>>
    /\ Admitted(Head(cands).val, Head(cands).node)
    /\ min_nterms >= 2
    /\ Head(cands).node.n_terms = min_nterms + 1

\* list_open holds an entry for the target at the best-known cost
TargetEntryHeld ==
    /\ goal \in DOMAIN backing
    /\ backing[goal].n_terms = goal_seen_n_terms

\* C19: goal_seen_n_terms never increases (every update strictly lowers
\* it); from the first discovery of the target on, after every step
\* list_open holds an entry for the target whose n_terms is
\* goal_seen_n_terms; and every entry a step_recache call removes has
\* n_terms >= goal_seen_n_terms and a value different from the target.
C19_TargetBookkeeping ==
    [][/\ goal_seen_n_terms' <= goal_seen_n_terms
       /\ one_way' # <<>> => TargetEntryHeld'
       /\ pc = "recache" =>
             \A v \in DOMAIN backing \ DOMAIN backing' :
                 backing[v].n_terms >= goal_seen_n_terms /\ v # goal]_vars

\* the candidates generate_against forms from the closed values a and b
FormedBy(a, b) ==
    LET cs == Candidates(a, list_closed[a], b, list_closed[b])
    IN  {cs[i] : i \in 1..Len(cs)}

\* the expansion of the just-closed node has finished
LoopBoundary == pc \in {"loop", "print"}

=============================================================================
